---------------------------- MODULE Spec2Model ----------------------------
(***************************************************************************)
(* EdFS: the on-disk filesystem engine of edfs-start (edfs-common.c and    *)
(* edfuse.c).  The image is a bitmap, an inode table and a data region of  *)
(* fixed-size blocks.  A block is an array of BS cells; one cell holds one *)
(* 16-bit word.  The same block is read as file data (one cell per data    *)
(* unit), as an indirect block (one block pointer per cell) or as          *)
(* directory entries (a filename cell followed by an inumber cell), just   *)
(* as the C code reinterprets the raw bytes of a block.                    *)
(***************************************************************************)
EXTENDS Integers, Sequences, FiniteSets, TLC

(***************************************************************************)
(* Geometry of the image (scaled down) and bounds of the exploration.      *)
(***************************************************************************)
BS == 2
N_DIRECT == 2
NBlocks == 5
NInodes == 4
FILENAME_SIZE == 2
MaxOps == 4

(* Program constants. *)
INVALID == 65535
ROOT == 1
ENOENT == 2
EIO == 5
EEXIST == 17
ENOTDIR == 20
EISDIR == 21
EINVAL == 22
EFBIG == 27
ENOSPC == 28
ENOTEMPTY == 39

TYPE_FREE == 0
TYPE_FILE == 1
TYPE_DIRECTORY == 2

BlockNums == 0 .. (NBlocks - 1)
Inumbers == 0 .. (NInodes - 1)
Slots == 0 .. (N_DIRECT - 1)
Cells == 0 .. (BS - 1)

(* sizeof(edfs_dir_entry_t), in cells: the filename and the inumber. *)
DIR_ENTRY_CELLS == 2

(* edfs_get_n_dir_entries_per_block, edfs_get_n_blocks_per_indirect_block *)
EntsPerBlock == BS \div DIR_ENTRY_CELLS
PerInd == BS

(* (uint32_t)x of a non-negative off_t below 2^31 (every offset and size   *)
(* of this model): the cast keeps the value.  Negative values are rejected *)
(* by the callers before the cast is reached.                              *)
U32(x) == x

Min(a, b) == IF a < b THEN a ELSE b

(***************************************************************************)
(* Disk inodes and in-memory inodes.                                       *)
(***************************************************************************)
ZeroDiskInode ==
  [type |-> TYPE_FREE, indirect |-> FALSE, size |-> 0,
   blocks |-> [i \in Slots |-> 0]]

IsDirectory(di) == di.type = TYPE_DIRECTORY
HasIndirect(di) == di.indirect

(* edfs_dir_entry_is_empty *)
EntryIsEmpty(blk, j) ==
  blk[DIR_ENTRY_CELLS * j + 1] = 0 /\ blk[DIR_ENTRY_CELLS * j] = 0

EntryName(blk, j) == blk[DIR_ENTRY_CELLS * j]
EntryInumber(blk, j) == blk[DIR_ENTRY_CELLS * j + 1]

ZeroBlock == [c \in Cells |-> 0]

(* edfs_read_inode into an in-memory inode whose inumber has been set: an   *)
(* inumber out of range leaves the disk-inode part as it was.               *)
ReadInode(d, old, inumber) ==
  [inumber |-> inumber,
   inode |-> IF inumber < NInodes THEN d.itable[inumber] ELSE old.inode]

ReadRootInode(d) ==
  [inumber |-> ROOT, inode |-> d.itable[ROOT]]

(* edfs_write_inode *)
WriteInode(d, ino) ==
  IF ino.inumber >= NInodes THEN d
  ELSE [d EXCEPT !.itable[ino.inumber] = ino.inode]

(* edfs_clear_inode *)
ClearInode(d, ino) ==
  IF ino.inumber >= NInodes THEN d
  ELSE [d EXCEPT !.itable[ino.inumber] = ZeroDiskInode]

(* inode.type == EDFS_INODE_TYPE_FREE compares the whole type byte, the    *)
(* indirect flag included.                                                 *)
IsFree(di) == di.type = TYPE_FREE /\ ~di.indirect

(* FreeInumbers without the test of the on-disk type. *)
InumbersFromOne(d) == 1 .. (NInodes - 1)

FreeInumbers(d) == {i \in 1 .. (NInodes - 1) : IsFree(d.itable[i])}

(* edfs_find_free_inode *)
FindFreeInode(d) ==
  IF FreeInumbers(d) = {} THEN 0
  ELSE CHOOSE i \in FreeInumbers(d) : \A k \in FreeInumbers(d) : i <= k

NewInodeBlocks == [i \in Slots |-> 0]

(* edfs_new_inode: rc and the in-memory inode *)
NewInodeAt(inumber, type) ==
  IF inumber = 0
  THEN [rc |-> -ENOSPC, ino |-> [inumber |-> 0, inode |-> ZeroDiskInode]]
  ELSE [rc |-> 0,
        ino |-> [inumber |-> inumber,
                 inode |-> [type |-> type, indirect |-> FALSE, size |-> 0,
                            blocks |-> NewInodeBlocks]]]

NewInode(d, type) == NewInodeAt(FindFreeInode(d), type)

(***************************************************************************)
(* Bitmap.                                                                 *)
(***************************************************************************)
(* bitmap_set that clears without looking at the bit. *)
BitmapSetUnchecked(d, blk, value) ==
  IF value
  THEN IF d.bitmap[blk] = 1 THEN [rc |-> -EEXIST, d |-> d]
       ELSE [rc |-> 0, d |-> [d EXCEPT !.bitmap[blk] = 1]]
  ELSE [rc |-> 0, d |-> [d EXCEPT !.bitmap[blk] = 0]]

(* bitmap_set *)
BitmapSet(d, blk, value) ==
  IF value
  THEN IF d.bitmap[blk] = 1 THEN [rc |-> -EEXIST, d |-> d]
       ELSE [rc |-> 0, d |-> [d EXCEPT !.bitmap[blk] = 1]]
  ELSE IF d.bitmap[blk] = 0 THEN [rc |-> -ENOENT, d |-> d]
       ELSE [rc |-> 0, d |-> [d EXCEPT !.bitmap[blk] = 0]]

(* The clear bits edfs_alloc_block finds in its copy of the bitmap. *)
ClearBits(d) == {b \in BlockNums : d.bitmap[b] = 0}

(* A scan that ends at the last clear bit instead of the first. *)
LastClear(clear) == CHOOSE b \in clear : \A k \in clear : b >= k

(* The first clear bit of the byte-by-byte, bit-by-bit scan. *)
FirstClear(clear) == CHOOSE b \in clear : \A k \in clear : b <= k

AllocSet(blk, r) == [rc |-> r.rc, blk |-> blk, d |-> r.d]

AllocIn(d, clear) ==
  IF clear = {} THEN [rc |-> -ENOSPC, blk |-> INVALID, d |-> d]
  ELSE AllocSet(FirstClear(clear), BitmapSet(d, FirstClear(clear), TRUE))

(* edfs_alloc_block: rc, the block and the disk *)
AllocBlock(d) == AllocIn(d, ClearBits(d))

(* edfs_free_block *)
FreeBlock(d, blk) == BitmapSet(d, blk, FALSE).d

(***************************************************************************)
(* Names.  A path is a sequence of one-character strings.  A filename is   *)
(* stored in the filename cell of an entry as its characters' codes in     *)
(* base NameBase, first character lowest, NUL-padded as strncpy pads it;   *)
(* the string of a cell ends at its first NUL.                             *)
(***************************************************************************)
Chars == {"a", "b"}
NameBase == Cardinality(Chars) + 1

CharCode(c) == IF c = "a" THEN 1 ELSE 2

RECURSIVE NameCode(_)
NameCode(s) ==
  IF s = <<>> THEN 0 ELSE CharCode(Head(s)) + NameBase * NameCode(Tail(s))

RECURSIVE CellStr(_)
CellStr(c) ==
  IF c % NameBase = 0 THEN <<>>
  ELSE <<c % NameBase>> \o CellStr(c \div NameBase)

RECURSIVE StrCodes(_)
StrCodes(s) ==
  IF s = <<>> THEN <<>> ELSE <<CharCode(Head(s))>> \o StrCodes(Tail(s))

(* strcmp(de->filename, want) == 0 *)
NameMatches(cell, want) == CellStr(cell) = StrCodes(want)

(***************************************************************************)
(* Directory store.                                                        *)
(***************************************************************************)
DirPositions == 0 .. (N_DIRECT * EntsPerBlock - 1)
PosSlot(k) == k \div EntsPerBlock
PosEntry(k) == k % EntsPerBlock

(* The positions edfs_scan_directory hands to its callback: the non-empty  *)
(* entries of the allocated blocks, in pointer-array then entry order.     *)
ScanPositions(d, di) ==
  {k \in DirPositions :
     /\ di.blocks[PosSlot(k)] # INVALID
     /\ ~EntryIsEmpty(d.blocks[di.blocks[PosSlot(k)]], PosEntry(k))}

MinOf(S) == CHOOSE x \in S : \A y \in S : x <= y

(* The non-empty entries whose filename lookup_cb matches. *)
LookupHits(d, di, want) ==
  {k \in ScanPositions(d, di) :
     NameMatches(EntryName(d.blocks[di.blocks[PosSlot(k)]], PosEntry(k)), want)}

LookupAt(d, di, hits) ==
  IF hits = {} THEN [found |-> FALSE, inumber |-> 0]
  ELSE [found |-> TRUE,
        inumber |-> EntryInumber(d.blocks[di.blocks[PosSlot(MinOf(hits))]],
                                 PosEntry(MinOf(hits)))]

(* edfs_scan_directory with lookup_cb *)
Lookup(d, di, want) ==
  IF ~IsDirectory(di) THEN [found |-> FALSE, inumber |-> 0]
  ELSE LookupAt(d, di, LookupHits(d, di, want))

(* edfs_scan_directory with mark_nonempty_cb *)
HasChild(d, di) == IsDirectory(di) /\ ScanPositions(d, di) # {}

(* edfs_scan_directory with readdir_cb: the filename cells, in scan order *)
RECURSIVE ScanNames(_, _, _)
ScanNames(d, di, k) ==
  IF k >= N_DIRECT * EntsPerBlock THEN <<>>
  ELSE (IF k \in ScanPositions(d, di)
        THEN <<EntryName(d.blocks[di.blocks[PosSlot(k)]], PosEntry(k))>>
        ELSE <<>>) \o ScanNames(d, di, k + 1)

SetEntry(blk, j, namecell, inumber) ==
  [blk EXCEPT ![DIR_ENTRY_CELLS * j] = namecell,
              ![DIR_ENTRY_CELLS * j + 1] = inumber]

(* edfs_add_dir_entry, second pass: the block was allocated (or not); zero *)
(* it, put the entry in slot 0, link it and write the inode back.          *)
AddInNewBlock(a, dir, slot, namecell, inumber) ==
  IF a.rc < 0 THEN [rc |-> a.rc, d |-> a.d]
  ELSE [rc |-> 0,
        d |-> WriteInode([a.d EXCEPT !.blocks[a.blk] =
                            SetEntry(ZeroBlock, 0, namecell, inumber)],
                         [dir EXCEPT !.inode.blocks[slot] = a.blk])]

(* edfs_add_dir_entry, first pass hit: fill the empty entry at position k *)
AddInPlace(d, b, j, namecell, inumber) ==
  [rc |-> 0,
   d |-> [d EXCEPT !.blocks[b] = SetEntry(@, j, namecell, inumber)]]

(* The empty entries of the allocated blocks of a directory. *)
EmptyPositions(d, di) ==
  {k \in DirPositions :
     /\ di.blocks[PosSlot(k)] # INVALID
     /\ EntryIsEmpty(d.blocks[di.blocks[PosSlot(k)]], PosEntry(k))}

InvalidSlots(di) == {i \in Slots : di.blocks[i] = INVALID}

(* AddPlaced that takes a new block whenever the inode has a slot for it. *)
AddPlacedInNewFirst(d, dir, namecell, inumber, empties, invalid) ==
  IF invalid # {}
  THEN AddInNewBlock(AllocBlock(d), dir, MinOf(invalid), namecell, inumber)
  ELSE IF empties = {} THEN [rc |-> -ENOSPC, d |-> d]
  ELSE AddInPlace(d, dir.inode.blocks[PosSlot(MinOf(empties))],
                  PosEntry(MinOf(empties)), namecell, inumber)

AddPlaced(d, dir, namecell, inumber, empties, invalid) ==
  IF empties # {}
  THEN AddInPlace(d, dir.inode.blocks[PosSlot(MinOf(empties))],
                  PosEntry(MinOf(empties)), namecell, inumber)
  ELSE IF invalid = {} THEN [rc |-> -ENOSPC, d |-> d]
  ELSE AddInNewBlock(AllocBlock(d), dir, MinOf(invalid), namecell, inumber)

(* edfs_add_dir_entry: rc and the disk *)
AddDirEntry(d, dir, name, inumber) ==
  IF ~IsDirectory(dir.inode) THEN [rc |-> -ENOTDIR, d |-> d]
  ELSE IF Len(name) >= FILENAME_SIZE THEN [rc |-> -EINVAL, d |-> d]
  ELSE AddPlaced(d, dir, NameCode(name), inumber,
                 EmptyPositions(d, dir.inode), InvalidSlots(dir.inode))

(***************************************************************************)
(* Path resolver.                                                          *)
(***************************************************************************)
RECURSIVE DropTrailingSlashes(_)
DropTrailingSlashes(p) ==
  IF Len(p) > 0 /\ p[Len(p)] = "/"
  THEN DropTrailingSlashes(SubSeq(p, 1, Len(p) - 1))
  ELSE p

(* index of the last "/" of p, 0 when there is none (strrchr) *)
LastSlash(p) ==
  IF \A i \in 1 .. Len(p) : p[i] # "/" THEN 0
  ELSE CHOOSE i \in 1 .. Len(p) :
         p[i] = "/" /\ \A k \in (i + 1) .. Len(p) : p[k] # "/"

(* the "/"-delimited components of p, empty ones skipped *)
RECURSIVE Components(_, _)
Components(p, acc) ==
  IF p = <<>> THEN (IF acc = <<>> THEN <<>> ELSE <<acc>>)
  ELSE IF Head(p) = "/"
       THEN (IF acc = <<>> THEN <<>> ELSE <<acc>>) \o Components(Tail(p), <<>>)
       ELSE Components(Tail(p), Append(acc, Head(p)))

RECURSIVE Walk(_, _, _)
WalkStep(d, cur, comps, l) ==
  IF l.found
  THEN Walk(d, ReadInode(d, cur, l.inumber), Tail(comps))
  ELSE [ok |-> FALSE, ino |-> cur]

Walk(d, cur, comps) ==
  IF comps = <<>> THEN [ok |-> TRUE, ino |-> cur]
  ELSE IF Len(Head(comps)) >= FILENAME_SIZE THEN [ok |-> FALSE, ino |-> cur]
  ELSE WalkStep(d, cur, comps, Lookup(d, cur.inode, Head(comps)))

(* edfs_find_inode *)
FindInode(d, path) ==
  IF Len(path) = 0 \/ path[1] # "/"
  THEN [ok |-> FALSE, ino |-> ReadRootInode(d)]
  ELSE Walk(d, ReadRootInode(d), Components(path, <<>>))

ParentFound(f) ==
  IF f.ok THEN [rc |-> 0, ino |-> f.ino] ELSE [rc |-> -ENOENT, ino |-> f.ino]

ParentOf(d, pc, sep) ==
  IF Len(pc) = 0 \/ sep = 0 THEN [rc |-> -EINVAL, ino |-> ReadRootInode(d)]
  ELSE IF sep = 1 THEN [rc |-> 0, ino |-> ReadRootInode(d)]
  ELSE ParentFound(FindInode(d, SubSeq(pc, 1, sep - 1)))

(* edfs_get_parent_inode *)
GetParentInode(d, path) ==
  ParentOf(d, DropTrailingSlashes(path), LastSlash(DropTrailingSlashes(path)))

BasenameOf(pc, sep) ==
  IF Len(pc) = 0 \/ sep = 0 THEN [ok |-> FALSE, name |-> <<>>]
  ELSE [ok |-> TRUE, name |-> SubSeq(pc, sep + 1, Len(pc))]

(* edfs_get_basename: ok is FALSE for NULL *)
GetBasename(path) ==
  BasenameOf(DropTrailingSlashes(path), LastSlash(DropTrailingSlashes(path)))

(***************************************************************************)
(* Block map.                                                              *)
(***************************************************************************)
Translated(rc, blk, inblk) == [rc |-> rc, blk |-> blk, inblk |-> inblk]

(* edfs_block_for_offset, indirect case *)
IndirectForOffset(d, ino, ind_slot, ind_index, inblk) ==
  IF ind_slot >= N_DIRECT THEN Translated(-EIO, INVALID, inblk)
  ELSE IF ino.inode.blocks[ind_slot] = INVALID
  THEN Translated(-EIO, INVALID, inblk)
  ELSE IF d.blocks[ino.inode.blocks[ind_slot]][ind_index] = INVALID
  THEN Translated(-EIO, INVALID, inblk)
  ELSE Translated(0, d.blocks[ino.inode.blocks[ind_slot]][ind_index], inblk)

(* edfs_block_for_offset, direct case *)
DirectForOffset(ino, idx, inblk) ==
  IF idx >= N_DIRECT THEN Translated(-EIO, INVALID, inblk)
  ELSE IF ino.inode.blocks[idx] = INVALID
  THEN Translated(-EIO, INVALID, inblk)
  ELSE Translated(0, ino.inode.blocks[idx], inblk)

(* edfs_block_for_offset: rc, the physical block, the offset within it *)
BlockForOffset(d, ino, offset) ==
  IF offset < 0 \/ U32(offset) >= ino.inode.size
  THEN Translated(-EINVAL, INVALID, offset % BS)
  ELSE IF ~HasIndirect(ino.inode)
  THEN DirectForOffset(ino, offset \div BS, offset % BS)
  ELSE IndirectForOffset(d, ino, (offset \div BS) \div PerInd,
                         (offset \div BS) % PerInd, offset % BS)

Ensured(rc, blk, d, ino) == [rc |-> rc, blk |-> blk, d |-> d, ino |-> ino]

(* edfs_ensure_block, indirect case: the data block was allocated (or not) *)
(* and is stored in the indirect array, which is written back.             *)
EnsureNewData(b, ino, slot, offset) ==
  IF b.rc < 0 THEN Ensured(b.rc, INVALID, b.d, ino)
  ELSE Ensured(0, b.blk,
               [b.d EXCEPT !.blocks[ino.inode.blocks[slot]][offset] = b.blk],
               ino)

(* edfs_ensure_block, indirect case: load the indirect block *)
EnsureData(d, ino, slot, offset) ==
  IF d.blocks[ino.inode.blocks[slot]][offset] = INVALID
  THEN EnsureNewData(AllocBlock(d), ino, slot, offset)
  ELSE Ensured(0, d.blocks[ino.inode.blocks[slot]][offset], d, ino)

(* The inode with a new indirect block in its slot. *)
WithIndirectBlock(ino, slot, blk) == [ino EXCEPT !.inode.blocks[slot] = blk]

(* edfs_ensure_block, indirect case: the indirect block was allocated (or  *)
(* not); zero it and write the inode back.                                 *)
EnsureNewIndirect(a, ino, slot, offset) ==
  IF a.rc < 0 THEN Ensured(a.rc, INVALID, a.d, ino)
  ELSE EnsureData(WriteInode([a.d EXCEPT !.blocks[a.blk] = ZeroBlock],
                             WithIndirectBlock(ino, slot, a.blk)),
                  WithIndirectBlock(ino, slot, a.blk), slot, offset)

(* edfs_ensure_block, indirect case *)
EnsureIndirect(d, ino, idx) ==
  IF idx \div PerInd >= N_DIRECT THEN Ensured(-EFBIG, INVALID, d, ino)
  ELSE IF ino.inode.blocks[idx \div PerInd] = INVALID
  THEN EnsureNewIndirect(AllocBlock(d), ino, idx \div PerInd, idx % PerInd)
  ELSE EnsureData(d, ino, idx \div PerInd, idx % PerInd)

(* The first sizeof(copy) cells of the zeroed indirect block overwritten   *)
(* by the old direct pointers.                                             *)
PromotedArray(blocks) ==
  [c \in Cells |-> IF c < N_DIRECT THEN blocks[c] ELSE 0]

(* The pointer array of a freshly promoted inode. *)
PromotedBlocks(ind_blk) ==
  [i \in Slots |-> IF i = 0 THEN ind_blk ELSE 0]

PromotedInode(ino, ind_blk) ==
  [ino EXCEPT !.inode.blocks = PromotedBlocks(ind_blk),
              !.inode.indirect = TRUE]

(* edfs_ensure_block, conversion to indirect *)
Promote(a, ino, idx) ==
  IF a.rc < 0 THEN Ensured(a.rc, INVALID, a.d, ino)
  ELSE EnsureIndirect(
         WriteInode([a.d EXCEPT !.blocks[a.blk] =
                       PromotedArray(ino.inode.blocks)],
                    PromotedInode(ino, a.blk)),
         PromotedInode(ino, a.blk), idx)

(* edfs_ensure_block, direct range: the block was allocated (or not) *)
EnsureNewDirect(a, ino, idx) ==
  IF a.rc < 0 THEN Ensured(a.rc, INVALID, a.d, ino)
  ELSE Ensured(0, a.blk,
               WriteInode(a.d, [ino EXCEPT !.inode.blocks[idx] = a.blk]),
               [ino EXCEPT !.inode.blocks[idx] = a.blk])

(* edfs_ensure_block: rc, the block, the disk, the in-memory inode *)
EnsureBlock(d, ino, idx) ==
  IF HasIndirect(ino.inode) THEN EnsureIndirect(d, ino, idx)
  ELSE IF idx >= N_DIRECT THEN Promote(AllocBlock(d), ino, idx)
  ELSE IF ino.inode.blocks[idx] = INVALID
  THEN EnsureNewDirect(AllocBlock(d), ino, idx)
  ELSE Ensured(0, ino.inode.blocks[idx], d, ino)

(***************************************************************************)
(* Operations (edfuse.c).  Each returns rc and the disk it leaves.         *)
(***************************************************************************)
Done(rc, d) == [rc |-> rc, d |-> d]

MakeInode(d, p, name, n) ==
  IF n.rc < 0 THEN Done(n.rc, d)
  ELSE AddDirEntry(WriteInode(d, n.ino), p.ino, name, n.ino.inumber)

(* MakeIn without the scan for the name. *)
MakeInUnchecked(d, p, bn, type) ==
  IF p.rc < 0 THEN Done(p.rc, d)
  ELSE IF ~IsDirectory(p.ino.inode) THEN Done(-ENOTDIR, d)
  ELSE IF ~bn.ok THEN Done(-EINVAL, d)
  ELSE MakeInode(d, p, bn.name, NewInode(d, type))

MakeIn(d, p, bn, type) ==
  IF p.rc < 0 THEN Done(p.rc, d)
  ELSE IF ~IsDirectory(p.ino.inode) THEN Done(-ENOTDIR, d)
  ELSE IF ~bn.ok THEN Done(-EINVAL, d)
  ELSE IF Lookup(d, p.ino.inode, bn.name).found THEN Done(-EEXIST, d)
  ELSE MakeInode(d, p, bn.name, NewInode(d, type))

(* edfuse_mkdir *)
Mkdir(d, path) ==
  MakeIn(d, GetParentInode(d, path), GetBasename(path), TYPE_DIRECTORY)

(* edfuse_create *)
Create(d, path) ==
  MakeIn(d, GetParentInode(d, path), GetBasename(path), TYPE_FILE)

RECURSIVE FreeSet(_, _)
FreeSet(d, S) ==
  IF S = {} THEN d
  ELSE FreeSet(FreeBlock(d, MinOf(S)), S \ {MinOf(S)})

(* The entries of the parent whose inumber is the target's. *)
RemovePositions(d, parent, inumber) ==
  {k \in DirPositions :
     /\ parent.inode.blocks[PosSlot(k)] # INVALID
     /\ EntryInumber(d.blocks[parent.inode.blocks[PosSlot(k)]], PosEntry(k))
          = inumber}

ZeroEntry(d, b, j) == [d EXCEPT !.blocks[b] = SetEntry(@, j, 0, 0)]

(* rmdir and unlink zero the first matching entry, in pointer-array then   *)
(* entry order, and fail with EIO when there is none.                      *)
RemoveAt(d, parent, hits) ==
  IF hits = {} THEN Done(-EIO, d)
  ELSE Done(0, ZeroEntry(d, parent.inode.blocks[PosSlot(MinOf(hits))],
                         PosEntry(MinOf(hits))))

RemoveEntry(d, parent, inumber) ==
  RemoveAt(d, parent, RemovePositions(d, parent, inumber))

DirectPointers(ino) == {ino.inode.blocks[i] : i \in Slots} \ {INVALID}

RmdirRemoved(r, t) ==
  IF r.rc < 0 THEN r
  ELSE Done(0, ClearInode(FreeSet(r.d, DirectPointers(t.ino)), t.ino))

RmdirParent(d, p, t) ==
  IF p.rc < 0 THEN Done(p.rc, d)
  ELSE RmdirRemoved(RemoveEntry(d, p.ino, t.ino.inumber), t)

(* RmdirFound without the scan for a child. *)
RmdirFoundUnscanned(d, path, t) ==
  IF ~t.ok THEN Done(-ENOENT, d)
  ELSE IF ~IsDirectory(t.ino.inode) THEN Done(-ENOTDIR, d)
  ELSE RmdirParent(d, GetParentInode(d, path), t)

RmdirFound(d, path, t) ==
  IF ~t.ok THEN Done(-ENOENT, d)
  ELSE IF ~IsDirectory(t.ino.inode) THEN Done(-ENOTDIR, d)
  ELSE IF HasChild(d, t.ino.inode) THEN Done(-ENOTEMPTY, d)
  ELSE RmdirParent(d, GetParentInode(d, path), t)

(* edfuse_rmdir *)
Rmdir(d, path) == RmdirFound(d, path, FindInode(d, path))

(* The blocks edfuse_unlink hands to edfs_free_block. *)
UnlinkFrees(d, ino) ==
  IF HasIndirect(ino.inode)
  THEN DirectPointers(ino)
         \cup ({d.blocks[b][i] : b \in DirectPointers(ino),
                                 i \in 0 .. (PerInd - 1)} \ {INVALID})
  ELSE DirectPointers(ino)

UnlinkRemoved(r, f) ==
  IF r.rc < 0 THEN r ELSE Done(0, ClearInode(r.d, f.ino))

UnlinkParent(d1, p, f) ==
  IF p.rc < 0 THEN Done(p.rc, d1)
  ELSE UnlinkRemoved(RemoveEntry(d1, p.ino, f.ino.inumber), f)

UnlinkFreed(d1, path, f) == UnlinkParent(d1, GetParentInode(d1, path), f)

UnlinkFound(d, path, f) ==
  IF ~f.ok THEN Done(-ENOENT, d)
  ELSE IF IsDirectory(f.ino.inode) THEN Done(-EISDIR, d)
  ELSE UnlinkFreed(FreeSet(d, UnlinkFrees(d, f.ino)), path, f)

(* edfuse_unlink *)
Unlink(d, path) == UnlinkFound(d, path, FindInode(d, path))

ReadResult(rc, data) == [rc |-> rc, data |-> data]

BlockData(d, blk, inblk, chunk) ==
  [i \in 1 .. chunk |-> d.blocks[blk][inblk + i - 1]]

(* the loop of edfuse_read: rc and the bytes read so far *)
RECURSIVE ReadLoop(_, _, _, _, _)
ReadChunk(d, ino, offset, bytes_left, acc, t, chunk) ==
  ReadLoop(d, ino, offset + chunk, bytes_left - chunk,
           acc \o BlockData(d, t.blk, t.inblk, chunk))

ReadTranslated(d, ino, offset, bytes_left, acc, t) ==
  IF t.rc < 0 THEN ReadResult(t.rc, acc)
  ELSE ReadChunk(d, ino, offset, bytes_left, acc, t,
                 Min(BS - t.inblk, bytes_left))

ReadLoop(d, ino, offset, bytes_left, acc) ==
  IF bytes_left <= 0 THEN ReadResult(Len(acc), acc)
  ELSE ReadTranslated(d, ino, offset, bytes_left, acc,
                      BlockForOffset(d, ino, offset))

ReadFound(d, f, size, offset) ==
  IF ~f.ok THEN ReadResult(-ENOENT, <<>>)
  ELSE IF IsDirectory(f.ino.inode) THEN ReadResult(-EISDIR, <<>>)
  ELSE IF U32(offset) >= f.ino.inode.size THEN ReadResult(0, <<>>)
  ELSE ReadLoop(d, f.ino, offset,
                IF offset + size > f.ino.inode.size
                THEN f.ino.inode.size - offset ELSE size,
                <<>>)

(* edfuse_read *)
Read(d, path, size, offset) == ReadFound(d, FindInode(d, path), size, offset)

Written(rc, d, ino) == [rc |-> rc, d |-> d, ino |-> ino]

(* pwrite of chunk bytes of buf + written into block blk at inblk *)
PutChunk(d, blk, buf, written, inblk, chunk) ==
  [d EXCEPT !.blocks[blk] =
     [c \in Cells |-> IF c >= inblk /\ c < inblk + chunk
                      THEN buf[written + (c - inblk) + 1]
                      ELSE @[c]]]

(* the loop of edfuse_write *)
RECURSIVE WriteLoop(_, _, _, _)
WriteChunk(e, buf, offset, written, inblk, chunk) ==
  WriteLoop(Written(0, PutChunk(e.d, e.blk, buf, written, inblk, chunk), e.ino),
            buf, offset, written + chunk)

WriteEnsured(e, buf, offset, written, inblk) ==
  IF e.rc < 0 THEN Written(e.rc, e.d, e.ino)
  ELSE WriteChunk(e, buf, offset, written, inblk,
                  Min(BS - inblk, Len(buf) - written))

WriteLoop(w, buf, offset, written) ==
  IF written >= Len(buf) THEN Written(written, w.d, w.ino)
  ELSE WriteEnsured(EnsureBlock(w.d, w.ino, (offset + written) \div BS),
                    buf, offset, written, (offset + written) % BS)

(* WriteFinish with the size set to the end of the write in every case. *)
WriteFinishAlways(w, offset) ==
  IF w.rc < 0 THEN Done(w.rc, w.d)
  ELSE Done(w.rc,
            WriteInode(w.d, [w.ino EXCEPT !.inode.size = offset + w.rc]))

(* edfuse_write, after the loop: update the size if the file was extended *)
WriteFinish(w, offset) ==
  IF w.rc < 0 THEN Done(w.rc, w.d)
  ELSE IF offset + w.rc > w.ino.inode.size
  THEN Done(w.rc,
            WriteInode(w.d, [w.ino EXCEPT !.inode.size = offset + w.rc]))
  ELSE Done(w.rc, w.d)

(* WriteFound without the test for a directory. *)
WriteFoundAnyType(d, f, buf, offset) ==
  IF ~f.ok THEN Done(-ENOENT, d)
  ELSE WriteFinish(WriteLoop(Written(0, d, f.ino), buf, offset, 0), offset)

WriteFound(d, f, buf, offset) ==
  IF ~f.ok THEN Done(-ENOENT, d)
  ELSE IF IsDirectory(f.ino.inode) THEN Done(-EISDIR, d)
  ELSE WriteFinish(WriteLoop(Written(0, d, f.ino), buf, offset, 0), offset)

(* edfuse_write *)
Write(d, path, buf, offset) == WriteFound(d, FindInode(d, path), buf, offset)

CeilDiv(a, b) == (a + b - 1) \div b

(* The blocks the shrink loop of edfuse_truncate hands to edfs_free_block. *)
TruncateFrees(d, ino, new_size) ==
  {BlockForOffset(d, ino, i * BS).blk :
     i \in {k \in CeilDiv(new_size, BS) .. (CeilDiv(ino.inode.size, BS) - 1) :
              BlockForOffset(d, ino, k * BS).rc = 0}}

(* The inode edfuse_truncate writes back. *)
ResizedInode(ino, new_size) == [ino EXCEPT !.inode.size = U32(new_size)]

(* edfuse_truncate, shrink branch *)
Shrink(d, ino, new_size) ==
  Done(0, WriteInode(FreeSet(d, TruncateFrees(d, ino, new_size)),
                     ResizedInode(ino, new_size)))

(* edfuse_truncate, extend branch, after the last block was ensured *)
Extended(e, new_size) ==
  IF e.rc < 0 THEN Done(e.rc, e.d)
  ELSE Done(0, WriteInode(e.d, ResizedInode(e.ino, new_size)))

Extend(d, ino, new_size) ==
  IF new_size # 0
  THEN Extended(EnsureBlock(d, ino, (new_size - 1) \div BS), new_size)
  ELSE Extended(Ensured(0, INVALID, d, ino), new_size)

(* TruncateFound without the test for a directory. *)
TruncateFoundAnyType(d, f, new_size) ==
  IF ~f.ok THEN Done(-ENOENT, d)
  ELSE IF new_size < 0 THEN Done(-EINVAL, d)
  ELSE IF U32(new_size) > f.ino.inode.size THEN Extend(d, f.ino, new_size)
  ELSE Shrink(d, f.ino, new_size)

TruncateFound(d, f, new_size) ==
  IF ~f.ok THEN Done(-ENOENT, d)
  ELSE IF IsDirectory(f.ino.inode) THEN Done(-EISDIR, d)
  ELSE IF new_size < 0 THEN Done(-EINVAL, d)
  ELSE IF U32(new_size) > f.ino.inode.size THEN Extend(d, f.ino, new_size)
  ELSE Shrink(d, f.ino, new_size)

(* edfuse_truncate *)
Truncate(d, path, new_size) ==
  TruncateFound(d, FindInode(d, path), new_size)

Attr(rc, isdir, nlink, size, ino) ==
  [rc |-> rc, isdir |-> isdir, nlink |-> nlink, size |-> size, ino |-> ino]

GetattrFound(f) ==
  IF ~f.ok THEN Attr(-ENOENT, FALSE, 0, 0, 0)
  ELSE IF IsDirectory(f.ino.inode)
  THEN Attr(0, TRUE, 2, f.ino.inode.size, f.ino.inumber)
  ELSE Attr(0, FALSE, 1, f.ino.inode.size, f.ino.inumber)

(* edfuse_getattr *)
Getattr(d, path) ==
  IF path = <<"/">> THEN Attr(0, TRUE, 2, 0, 0)
  ELSE GetattrFound(FindInode(d, path))

(* "." and ".." are made of a character no stored filename contains. *)
DotCode == NameBase
DotNames == <<<<DotCode>>, <<DotCode, DotCode>>>>

ReaddirResult(rc, names) == [rc |-> rc, names |-> names]

(* The names the filler receives from readdir_cb, as strings. *)
FilledNames(cells) == [i \in 1 .. Len(cells) |-> CellStr(cells[i])]

ReaddirFound(d, f) ==
  IF ~f.ok THEN ReaddirResult(-ENOENT, <<>>)
  ELSE IF ~IsDirectory(f.ino.inode) THEN ReaddirResult(-ENOTDIR, <<>>)
  ELSE ReaddirResult(0, DotNames \o FilledNames(ScanNames(d, f.ino.inode, 0)))

(* edfuse_readdir *)
Readdir(d, path) == ReaddirFound(d, FindInode(d, path))

OpenFound(f) ==
  IF ~f.ok THEN -ENOENT
  ELSE IF IsDirectory(f.ino.inode) THEN -EISDIR
  ELSE 0

(* edfuse_open *)
Open(d, path) == OpenFound(FindInode(d, path))

(* edfuse_utime, edfuse_chmod, edfuse_chown: accept and ignore *)
Utime(d, path) == Done(0, d)

(* chmod that looks the path up first. *)
ChmodChecked(d, path) ==
  IF FindInode(d, path).ok THEN Done(0, d) ELSE Done(-ENOENT, d)

Chmod(d, path) == Done(0, d)

Chown(d, path) == Done(0, d)

(***************************************************************************)
(* The state machine: the image, and what the last call was and returned.  *)
(***************************************************************************)
MaxDirectSize == N_DIRECT * BS
MaxFileSize == N_DIRECT * PerInd * BS

Paths == {<<"/", "a">>, <<"/", "b">>, <<"/", "a", "/", "b">>}

WriteOffsets == {0, 1, MaxDirectSize, MaxFileSize}
WriteLens == {0, 1, BS + 1, MaxDirectSize + 1}
Seeds == {0, 1}

(* The buffers handed to write: data units 1..3 in a pattern of period 3. *)
Buffer(n, seed) == [i \in 1 .. n |-> 1 + ((i + seed) % 3)]

TruncSizes == {-1, 0, 1, BS + 1, MaxDirectSize + 1, MaxFileSize + 1}

ReadArgs == {<<1, 0>>, <<BS + 1, 0>>, <<1, MaxDirectSize>>}

VARIABLES
  disk,    \* the image: bitmap, inode table, data blocks
  steps    \* number of calls made

vars == <<disk, steps>>

EmptyImage ==
  [bitmap |-> [b \in BlockNums |-> 0],
   itable |-> [i \in Inumbers |->
                 IF i = ROOT
                 THEN [type |-> TYPE_DIRECTORY, indirect |-> FALSE,
                       size |-> 0, blocks |-> [s \in Slots |-> INVALID]]
                 ELSE ZeroDiskInode],
   blocks |-> [b \in BlockNums |-> ZeroBlock]]

Init ==
  /\ disk = EmptyImage
  /\ steps = 0

Called == steps < MaxOps /\ steps' = steps + 1

DoMkdir == Called /\ \E path \in Paths : disk' = Mkdir(disk, path).d

DoCreate == Called /\ \E path \in Paths : disk' = Create(disk, path).d

DoRmdir == Called /\ \E path \in Paths : disk' = Rmdir(disk, path).d

DoUnlink == Called /\ \E path \in Paths : disk' = Unlink(disk, path).d

DoWrite ==
  /\ Called
  /\ \E path \in Paths, offset \in WriteOffsets, n \in WriteLens, s \in Seeds :
       disk' = Write(disk, path, Buffer(n, s), offset).d

DoTruncate ==
  /\ Called
  /\ \E path \in Paths, new_size \in TruncSizes :
       disk' = Truncate(disk, path, new_size).d

(* read and getattr return their result and leave the image alone *)
DoRead ==
  /\ Called
  /\ \E path \in Paths, a \in ReadArgs :
       Read(disk, path, a[1], a[2]).rc >= -ENOTEMPTY /\ disk' = disk

DoGetattr ==
  /\ Called
  /\ \E path \in Paths : Getattr(disk, path).rc <= 0 /\ disk' = disk

DirPaths == Paths \cup {<<"/">>}

DoReaddir ==
  /\ Called
  /\ \E path \in DirPaths : Readdir(disk, path).rc <= 0 /\ disk' = disk

DoOpen ==
  /\ Called
  /\ \E path \in DirPaths : Open(disk, path) <= 0 /\ disk' = disk

DoUtime == Called /\ \E path \in DirPaths : disk' = Utime(disk, path).d

DoChmod == Called /\ \E path \in DirPaths : disk' = Chmod(disk, path).d

DoChown == Called /\ \E path \in DirPaths : disk' = Chown(disk, path).d

Next ==
  \/ DoMkdir
  \/ DoCreate
  \/ DoRmdir
  \/ DoUnlink
  \/ DoWrite
  \/ DoTruncate
  \/ DoRead
  \/ DoGetattr
  \/ DoReaddir
  \/ DoOpen
  \/ DoUtime
  \/ DoChmod
  \/ DoChown

Spec == Init /\ [][Next]_vars

(* The image the program is mounted on (edfuse.c main) need not be empty.  *)
(* FullImage is a laid-out image with no free block: the root directory    *)
(* holds /a in block 0 and /b in block 1; /a is an empty file with no      *)
(* block; /b has the indirect block 2 and behind it the data blocks 3, 4.  *)
FullRoot ==
  [type |-> TYPE_DIRECTORY, indirect |-> FALSE, size |-> 0,
   blocks |-> [s \in Slots |-> IF s < 2 THEN s ELSE INVALID]]

FullFileA ==
  [type |-> TYPE_FILE, indirect |-> FALSE, size |-> 0,
   blocks |-> [s \in Slots |-> INVALID]]

FullFileB ==
  [type |-> TYPE_FILE, indirect |-> TRUE, size |-> 2 * BS,
   blocks |-> [s \in Slots |-> IF s = 0 THEN 2 ELSE INVALID]]

(* A directory block whose first entry is (name, inumber). *)
EntryBlockOf(name, inumber) ==
  [c \in Cells |-> IF c = 0 THEN NameCode(name)
                   ELSE IF c = 1 THEN inumber ELSE 0]

FullBlocks(b) ==
  IF b = 0 THEN EntryBlockOf(<<"a">>, ROOT + 1)
  ELSE IF b = 1 THEN EntryBlockOf(<<"b">>, ROOT + 2)
  ELSE IF b = 2 THEN [c \in Cells |-> IF c < 2 THEN 3 + c ELSE INVALID]
  ELSE ZeroBlock

FullImage ==
  [bitmap |-> [b \in BlockNums |-> 1],
   itable |-> [i \in Inumbers |->
                 IF i = ROOT THEN FullRoot
                 ELSE IF i = ROOT + 1 THEN FullFileA
                 ELSE IF i = ROOT + 2 THEN FullFileB
                 ELSE ZeroDiskInode],
   blocks |-> [b \in BlockNums |-> FullBlocks(b)]]

InitFullImage ==
  /\ disk = FullImage
  /\ steps = 0

SpecFullImage == InitFullImage /\ [][Next]_vars

(***************************************************************************)
(* Properties of the image and of the operations.                         *)
(***************************************************************************)
Allocated(d) == {i \in Inumbers : ~IsFree(d.itable[i])}

Files(d) == {i \in Inumbers : d.itable[i].type = TYPE_FILE}

Directories(d) == {i \in Inumbers : d.itable[i].type = TYPE_DIRECTORY}

(* The references of inode i: <<i, slot, cell, block>>, cell -1 for a      *)
(* pointer of the inode's own array, and the non-INVALID pointers stored   *)
(* in each of its indirect blocks when the indirect bit is set.            *)
DirectRefs(d, i) ==
  {<<i, s, -1, d.itable[i].blocks[s]>> :
     s \in {t \in Slots : d.itable[i].blocks[t] # INVALID}}

IndirectRefs(d, i) ==
  IF ~d.itable[i].indirect THEN {}
  ELSE UNION {
         {<<i, s, c, d.blocks[d.itable[i].blocks[s]][c]>> :
            c \in {x \in Cells :
                     d.blocks[d.itable[i].blocks[s]][x] # INVALID}} :
         s \in {t \in Slots : d.itable[i].blocks[t] \in BlockNums}}

Refs(d) == UNION {DirectRefs(d, i) \cup IndirectRefs(d, i) : i \in Allocated(d)}

(* C1: for every allocated inode, every non-INVALID pointer (direct,       *)
(* indirect-block or data pointer inside an indirect block) references an  *)
(* in-range data block whose bitmap bit is set.                            *)
C1_PointersReferenceAllocatedBlocks ==
  \A r \in Refs(disk) : r[4] \in BlockNums /\ disk.bitmap[r[4]] = 1

(* C2: no data block is referenced by two allocated inodes, nor by two     *)
(* slots of the same inode pointer array or indirect array.                *)
C2_NoBlockReferencedTwice ==
  \A r1, r2 \in Refs(disk) : r1 # r2 => r1[4] # r2[4]

(* The paths that resolve to a regular file. *)
IsFilePath(d, path) ==
  FindInode(d, path).ok /\ FindInode(d, path).ino.inode.type = TYPE_FILE

RoundTripBuffers ==
  {Buffer(n, s) : n \in {1, BS, BS + 1, MaxDirectSize, MaxDirectSize + 1,
                         MaxFileSize}, s \in Seeds}

RoundTrips(d, path, buf, w) ==
  w.rc = Len(buf) => Read(w.d, path, Len(buf), 0) = ReadResult(Len(buf), buf)

(* C3: for any existing file and any buffer B of at most the maximum file  *)
(* size, a write of B at offset 0 that succeeds, followed by a read of |B| *)
(* bytes at offset 0, returns exactly B.                                   *)
C3_WriteThenReadReturnsBuffer ==
  \A path \in Paths, buf \in RoundTripBuffers :
    IsFilePath(disk, path) =>
      RoundTrips(disk, path, buf, Write(disk, path, buf, 0))

(* The paths under which create can make a new node: the parent is a       *)
(* directory that does not contain the name.                               *)
IsNewPath(d, path) ==
  /\ GetParentInode(d, path).rc = 0
  /\ IsDirectory(GetParentInode(d, path).ino.inode)
  /\ GetBasename(path).ok
  /\ ~Lookup(d, GetParentInode(d, path).ino.inode, GetBasename(path).name).found

SameBitmapAndInodes(d1, d2) == d1.bitmap = d2.bitmap /\ d1.itable = d2.itable

(* C4: create(path) immediately followed by unlink(path) leaves the bitmap *)
(* and the inode table as they were before the create, whatever the state  *)
(* of the parent directory.                                                *)
C4_CreateUnlinkRestores ==
  \A path \in Paths :
    IsNewPath(disk, path) /\ Create(disk, path).rc = 0 =>
      SameBitmapAndInodes(Unlink(Create(disk, path).d, path).d, disk)

(* The blocks inode i references in image d. *)
Owned(d, i) == {r[4] : r \in DirectRefs(d, i) \cup IndirectRefs(d, i)}

OwnedByOthers(d, i) ==
  UNION {Owned(d, k) : k \in Allocated(d) \ {i}}

(* unlink of path, a file with inumber i in image w, from a file created   *)
(* in image d0: every block of the file is free afterwards, the bitmap is  *)
(* the one before the create, no bit of another inode's block is cleared.  *)
UnlinkFreesExactly(d0, w, path, i, u) ==
  u.rc = 0 =>
    /\ \A b \in Owned(w, i) : u.d.bitmap[b] = 0
    /\ u.d.bitmap = d0.bitmap
    /\ \A b \in OwnedByOthers(w, i) : u.d.bitmap[b] = w.bitmap[b]

CreatedThenWritten(d0, c, path, buf, offset) ==
  c.rc = 0 =>
    UnlinkFreesExactly(d0, Write(c.d, path, buf, offset).d, path,
                       FindInode(c.d, path).ino.inumber,
                       Unlink(Write(c.d, path, buf, offset).d, path))

(* C5: after create, a write to the file and unlink, every block the file  *)
(* owned is free, the bitmap matches the pre-create bitmap bit for bit and *)
(* no bit of a block owned by another inode has been cleared.              *)
C5_UnlinkFreesTheFilesBlocks ==
  \A path \in Paths, offset \in WriteOffsets, n \in WriteLens :
    IsNewPath(disk, path) =>
      CreatedThenWritten(disk, Create(disk, path), path, Buffer(n, 0), offset)

ReadProbes == {<<k, o>> : k \in {1, BS + 1}, o \in {0, 1, BS, MaxDirectSize + 1}}

TruncatedTo(t, path, new_size) ==
  t.rc = 0 =>
    /\ Getattr(t.d, path).rc = 0
    /\ Getattr(t.d, path).size = new_size
    /\ \A a \in ReadProbes :
         Read(t.d, path, a[1], new_size + a[2]) = ReadResult(0, <<>>)

(* C6: when truncate(path, S) on a file returns 0, getattr(path) reports   *)
(* size S and every read at an offset S' >= S returns 0 bytes.             *)
C6_TruncateSetsSize ==
  \A path \in Paths, new_size \in TruncSizes :
    IsFilePath(disk, path) =>
      TruncatedTo(Truncate(disk, path, new_size), path, new_size)

(* The logical block indices of an inode that translate to a block. *)
LogicalBlocks ==  0 .. (N_DIRECT * PerInd - 1)

Translates(d, ino, i) == BlockForOffset(d, ino, i * BS).rc = 0

PhysicalOf(d, ino, i) == BlockForOffset(d, ino, i * BS).blk

ShrunkTo(d, ino, new_size, t) ==
  t.rc = 0 =>
    \A i \in LogicalBlocks :
      Translates(d, ino, i) =>
        /\ i >= CeilDiv(new_size, BS) => t.d.bitmap[PhysicalOf(d, ino, i)] = 0
        /\ i < CeilDiv(new_size, BS) =>
             t.d.bitmap[PhysicalOf(d, ino, i)] = d.bitmap[PhysicalOf(d, ino, i)]

(* C7: when truncate shrinks a file, every allocated logical block from    *)
(* ceil(new_size/BS) up to ceil(old_size/BS)-1 has its bit cleared and the *)
(* blocks with a lower index keep their bit.                               *)
C7_ShrinkFreesTheTail ==
  \A path \in Paths, new_size \in TruncSizes :
    (/\ IsFilePath(disk, path)
     /\ new_size >= 0
     /\ new_size <= FindInode(disk, path).ino.inode.size) =>
      ShrunkTo(disk, FindInode(disk, path).ino, new_size,
               Truncate(disk, path, new_size))

(* C8: every file inode has size <= N_DIRECT * per * BS when its indirect  *)
(* bit is set and size <= N_DIRECT * BS when it is clear.                  *)
C8_SizeWithinLayout ==
  \A i \in Files(disk) :
    disk.itable[i].size <=
      (IF disk.itable[i].indirect THEN MaxFileSize ELSE MaxDirectSize)

(* The entries <<slot, entry>> stored in the allocated blocks of a         *)
(* directory inode.                                                        *)
StoredPositions(d, i) ==
  {k \in DirPositions : d.itable[i].blocks[PosSlot(k)] # INVALID}

EntryBlock(d, i, k) == d.blocks[d.itable[i].blocks[PosSlot(k)]]

(* C9: every directory entry stored in a block of an allocated directory   *)
(* has inumber 0 or the inumber of an allocated inode.                     *)
C9_EntriesNameAllocatedInodes ==
  \A i \in Directories(disk) : \A k \in StoredPositions(disk, i) :
    \/ EntryInumber(EntryBlock(disk, i, k), PosEntry(k)) = 0
    \/ EntryInumber(EntryBlock(disk, i, k), PosEntry(k)) \in Allocated(disk)

(* C10: within a single directory no two non-empty entries share the same  *)
(* filename.                                                               *)
C10_NamesUniqueInDirectory ==
  \A i \in Directories(disk) :
    \A k1, k2 \in ScanPositions(disk, disk.itable[i]) :
      k1 # k2 =>
        CellStr(EntryName(EntryBlock(disk, i, k1), PosEntry(k1)))
          # CellStr(EntryName(EntryBlock(disk, i, k2), PosEntry(k2)))

(* The parent of path resolves to a directory. *)
ParentIsDirectory(d, path) ==
  /\ GetParentInode(d, path).rc = 0
  /\ IsDirectory(GetParentInode(d, path).ino.inode)

(* Directory inode di stores a non-empty entry called name. *)
HasEntryNamed(d, di, name) ==
  \E s \in Slots, j \in 0 .. (EntsPerBlock - 1) :
    /\ di.blocks[s] # INVALID
    /\ ~EntryIsEmpty(d.blocks[di.blocks[s]], j)
    /\ CellStr(EntryName(d.blocks[di.blocks[s]], j)) = StrCodes(name)

NameTaken(d, path) ==
  /\ ParentIsDirectory(d, path)
  /\ GetBasename(path).ok
  /\ HasEntryNamed(d, GetParentInode(d, path).ino.inode, GetBasename(path).name)

(* C11: mkdir(path) and create(path), when the parent directory already    *)
(* stores an entry with the basename, return EEXIST and leave the bitmap,  *)
(* the inode table and every block unchanged.                              *)
C11_ExistingNameIsRefused ==
  \A path \in Paths :
    NameTaken(disk, path) =>
      /\ Mkdir(disk, path) = Done(-EEXIST, disk)
      /\ Create(disk, path) = Done(-EEXIST, disk)

(* The root stores an entry "a" and create and mkdir of /a are refused. *)
C11_Witness ==
  /\ NameTaken(disk, <<"/", "a">>)
  /\ Mkdir(disk, <<"/", "a">>).rc = -EEXIST
  /\ Create(disk, <<"/", "a">>).rc = -EEXIST

(* C12: for a path whose parent directory exists and does not contain the  *)
(* name, mkdir(path) immediately followed by rmdir(path) leaves the bitmap *)
(* and the inode table as they were before the mkdir.                      *)
C12_MkdirRmdirRestores ==
  \A path \in Paths :
    IsNewPath(disk, path) /\ Mkdir(disk, path).rc = 0 =>
      SameBitmapAndInodes(Rmdir(Mkdir(disk, path).d, path).d, disk)

(* path resolves to a directory other than the root. *)
IsDirPath(d, path) ==
  FindInode(d, path).ok /\ IsDirectory(FindInode(d, path).ino.inode)

(* Directory inode di stores at least one non-empty entry. *)
HasEntries(d, di) ==
  \E s \in Slots, j \in 0 .. (EntsPerBlock - 1) :
    di.blocks[s] # INVALID /\ ~EntryIsEmpty(d.blocks[di.blocks[s]], j)

(* rmdir of an empty directory t succeeded: the parent has no entry for    *)
(* it, its inode slot is free and the blocks it owned are free.            *)
RemovedDirectory(d, path, t, r) ==
  /\ r.rc = 0
  /\ ~NameTaken(r.d, path)
  /\ IsFree(r.d.itable[t.inumber])
  /\ \A s \in Slots :
       t.inode.blocks[s] # INVALID => r.d.bitmap[t.inode.blocks[s]] = 0

DirOf(path) == IF Len(path) <= 2 THEN <<"/">> ELSE SubSeq(path, 1, Len(path) - 2)

(* How often readdir of directory dp lists name. *)
Listed(d, dp, name) ==
  Cardinality({i \in 1 .. Len(Readdir(d, dp).names) :
                 Readdir(d, dp).names[i] = StrCodes(name)})

(* readdir of dp starts with "." and ".." and lists no name twice. *)
ListsOnce(d, dp) ==
  Readdir(d, dp).rc = 0 =>
    /\ SubSeq(Readdir(d, dp).names, 1, 2) = DotNames
    /\ \A i, j \in 3 .. Len(Readdir(d, dp).names) :
         i # j => Readdir(d, dp).names[i] # Readdir(d, dp).names[j]

(* After a successful insertion the name is listed once, after a           *)
(* successful removal it is not listed.                                    *)
ListedAfter(r, path, times) ==
  r.rc = 0 =>
    /\ Readdir(r.d, DirOf(path)).rc = 0
    /\ Listed(r.d, DirOf(path), GetBasename(path).name) = times

(* C14: readdir emits "." and ".." and then every non-empty entry: a name  *)
(* inserted by mkdir or create is listed exactly once, a name removed by   *)
(* unlink or rmdir is not listed, and no name is listed twice.             *)
C14_ReaddirListsLiveNames ==
  /\ \A dp \in DirPaths : ListsOnce(disk, dp)
  /\ \A path \in Paths :
       /\ ListedAfter(Mkdir(disk, path), path, 1)
       /\ ListedAfter(Create(disk, path), path, 1)
       /\ ListedAfter(Unlink(disk, path), path, 0)
       /\ ListedAfter(Rmdir(disk, path), path, 0)

Max(a, b) == IF a >= b THEN a ELSE b

(* write of n bytes at offset to the file with inode f returned w. *)
WroteAll(f, w, n, offset) ==
  w.rc >= 0 =>
    /\ w.rc = n
    /\ w.d.itable[f.inumber].size = Max(f.inode.size, offset + n)

(* C15: a successful write(path, buf, n, off) on a file returns n and      *)
(* leaves the file's size at max(old_size, off + n); a write inside the    *)
(* existing size leaves the size unchanged.                                *)
C15_WriteSetsSizeToMax ==
  \A path \in Paths, offset \in WriteOffsets, n \in WriteLens, s \in Seeds :
    IsFilePath(disk, path) =>
      WroteAll(FindInode(disk, path).ino,
               Write(disk, path, Buffer(n, s), offset), n, offset)

(* A file holds more than one byte; a one-byte write at its start succeeds *)
(* and a write past its end succeeds.                                      *)
C15_Witness ==
  /\ IsFilePath(disk, <<"/", "a">>)
  /\ FindInode(disk, <<"/", "a">>).ino.inode.size > 1
  /\ FindInode(disk, <<"/", "a">>).ino.inode.size < MaxDirectSize
  /\ Write(disk, <<"/", "a">>, Buffer(1, 0), 0).rc = 1
  /\ Write(disk, <<"/", "a">>, Buffer(1, 0), MaxDirectSize).rc = 1

(* The parent of path resolves to a regular file. *)
ParentIsFile(d, path) ==
  /\ GetParentInode(d, path).rc = 0
  /\ GetParentInode(d, path).ino.inode.type = TYPE_FILE

(* The calls that want a file, on a directory. *)
RefusesDirectory(d, path) ==
  /\ Open(d, path) = -EISDIR
  /\ \A a \in ReadArgs : Read(d, path, a[1], a[2]).rc = -EISDIR
  /\ \A offset \in WriteOffsets, n \in WriteLens :
       Write(d, path, Buffer(n, 0), offset) = Done(-EISDIR, d)
  /\ \A new_size \in TruncSizes :
       Truncate(d, path, new_size) = Done(-EISDIR, d)
  /\ Unlink(d, path) = Done(-EISDIR, d)

(* The calls that want a directory, on a regular file. *)
RefusesFile(d, path) ==
  /\ Rmdir(d, path) = Done(-ENOTDIR, d)
  /\ Readdir(d, path).rc = -ENOTDIR

RefusesFileParent(d, path) ==
  /\ Mkdir(d, path) = Done(-ENOTDIR, d)
  /\ Create(d, path) = Done(-ENOTDIR, d)

(* C16: open, read, write, truncate and unlink on a directory return       *)
(* EISDIR; rmdir and readdir on a regular file return ENOTDIR; mkdir and   *)
(* create under a regular file return ENOTDIR; the image is unchanged.     *)
C16_TypeErrorsChangeNothing ==
  \A path \in DirPaths :
    /\ IsDirPath(disk, path) => RefusesDirectory(disk, path)
    /\ IsFilePath(disk, path) => RefusesFile(disk, path)
    /\ ParentIsFile(disk, path) => RefusesFileParent(disk, path)

(* /a is a regular file, so /a/b has a file as parent, and /b is a         *)
(* directory; all three kinds of call are refused.                         *)
C16_Witness ==
  /\ IsFilePath(disk, <<"/", "a">>)
  /\ ParentIsFile(disk, <<"/", "a", "/", "b">>)
  /\ IsDirPath(disk, <<"/", "b">>)
  /\ Truncate(disk, <<"/", "b">>, 1).rc = -EISDIR
  /\ Rmdir(disk, <<"/", "a">>).rc = -ENOTDIR
  /\ Create(disk, <<"/", "a", "/", "b">>).rc = -ENOTDIR

(* The last logical block a write of n > 0 bytes at offset touches lies    *)
(* past the single-indirect capacity.                                      *)
PastCapacity(last_byte) == (last_byte \div BS) \div PerInd >= N_DIRECT

(* Call r on the file f failed with EFBIG and left the size alone. *)
TooBig(f, r) ==
  /\ r.rc = -EFBIG
  /\ r.d.itable[f.inumber].size = f.inode.size

WriteTooBig(d, path, f) ==
  \A offset \in WriteOffsets, n \in WriteLens, s \in Seeds :
    n > 0 /\ PastCapacity(offset + n - 1) =>
      TooBig(f, Write(d, path, Buffer(n, s), offset))

TruncateTooBig(d, path, f) ==
  \A new_size \in TruncSizes :
    new_size > f.inode.size /\ PastCapacity(new_size - 1) =>
      TooBig(f, Truncate(d, path, new_size))

(* C17: a write or a growing truncate that needs a logical block past the  *)
(* single-indirect capacity fails with EFBIG and leaves the size of the    *)
(* file as it was.                                                         *)
C17_PastCapacityIsEFBIG ==
  \A path \in Paths :
    IsFilePath(disk, path) =>
      /\ WriteTooBig(disk, path, FindInode(disk, path).ino)
      /\ TruncateTooBig(disk, path, FindInode(disk, path).ino)

(* Logical block i of the inode has no block behind it, whatever the size. *)
Hole(d, ino, i) ==
  BlockForOffset(d, [ino EXCEPT !.inode.size = (i + 1) * BS], i * BS).rc = -EIO

LastIndex(new_size) == (new_size - 1) \div BS

(* The read of size bytes at offset, clamped to the file, touches a hole. *)
CoversHole(d, ino, size, offset) ==
  \E x \in offset .. (Min(offset + size, ino.inode.size) - 1) :
    Hole(d, ino, x \div BS)

InsideLast(ino, size, offset) ==
  /\ size > 0
  /\ offset \div BS = LastIndex(ino.inode.size)
  /\ offset + size <= ino.inode.size

(* What reads of the grown file (inode ino on disk d) return. *)
ReadsOfGrown(d, path, ino) ==
  \A p \in ReadProbes :
    /\ CoversHole(d, ino, p[1], p[2]) => Read(d, path, p[1], p[2]).rc = -EIO
    /\ InsideLast(ino, p[1], p[2]) => Read(d, path, p[1], p[2]).rc = p[1]

(* truncate grew the file with inode ino to new_size and left t. *)
GrownTo(d, path, ino, new_size, t) ==
  new_size > 0 /\ new_size > ino.inode.size /\ t.rc = 0 =>
    /\ ~Hole(t.d, FindInode(t.d, path).ino, LastIndex(new_size))
    /\ \A i \in 0 .. (LastIndex(new_size) - 1) :
         Hole(d, ino, i) => Hole(t.d, FindInode(t.d, path).ino, i)
    /\ ReadsOfGrown(t.d, path, FindInode(t.d, path).ino)

(* A file created by this call has no block: below its last block a grown  *)
(* new file is all hole.                                                   *)
FreshGrownTo(c, path, new_size, t) ==
  c.rc = 0 /\ new_size > 0 /\ t.rc = 0 =>
    /\ \A i \in 0 .. (LastIndex(new_size) - 1) :
         Hole(t.d, FindInode(t.d, path).ino, i)
    /\ ReadsOfGrown(t.d, path, FindInode(t.d, path).ino)

(* C18: a growing truncate ensures the last logical block only; indices    *)
(* below it that had no block still have none; a read that covers such a   *)
(* hole returns EIO and a read inside the last block returns the count     *)
(* asked for.                                                              *)
C18_GrowEnsuresOnlyLastBlock ==
  \A path \in Paths, new_size \in TruncSizes :
    /\ IsFilePath(disk, path) =>
         GrownTo(disk, path, FindInode(disk, path).ino, new_size,
                 Truncate(disk, path, new_size))
    /\ IsNewPath(disk, path) =>
         FreshGrownTo(Create(disk, path), path, new_size,
                      Truncate(Create(disk, path).d, path, new_size))

(* chmod, chown and utime accept every path and hand the image back. *)
AttributeCallsAccept(d) ==
  \A path \in DirPaths :
    /\ Chmod(d, path) = Done(0, d)
    /\ Chown(d, path) = Done(0, d)
    /\ Utime(d, path) = Done(0, d)

C20_DirectoriesStayDirect ==
  \A i \in Inumbers : IsDirectory(disk.itable[i]) => ~HasIndirect(disk.itable[i])

(* A directory other than the root exists next to a file that was          *)
(* promoted, and a write to the directory past the direct range is         *)
(* refused.                                                                *)
C20_Witness ==
  /\ \E i \in Inumbers \ {ROOT} : IsDirectory(disk.itable[i])
  /\ \E i \in Inumbers :
       disk.itable[i].type = TYPE_FILE /\ HasIndirect(disk.itable[i])
  /\ \E path \in Paths :
       /\ IsDirPath(disk, path)
       /\ Write(disk, path, Buffer(1, 0), MaxDirectSize).rc = -EISDIR

(* translate of logical block i, whatever the size of the file *)
TranslateAt(d, ino, i) ==
  BlockForOffset(d, [ino EXCEPT !.inode.size = (i + 1) * BS], i * BS)

DirectIndexes == 0 .. (N_DIRECT - 1)

PromotingIndexes == N_DIRECT .. (N_DIRECT * PerInd - 1)

(* ensure of an index in the direct range leaves the inode direct. *)
StaysDirect(e) == e.rc = 0 => ~HasIndirect(e.ino.inode)

(* ensure of idx promoted the direct-only inode ino of disk d, giving e. *)
Promoted(d, ino, idx, e) ==
  e.rc = 0 =>
    /\ HasIndirect(e.ino.inode)
    /\ e.d.itable[ino.inumber] = e.ino.inode
    /\ e.ino.inode.blocks[0] \in BlockNums
    /\ d.bitmap[e.ino.inode.blocks[0]] = 0
    /\ e.d.bitmap[e.ino.inode.blocks[0]] = 1
    /\ \A s \in Slots \ {0, idx \div PerInd} : e.ino.inode.blocks[s] = INVALID
    /\ \A i \in DirectIndexes :
         /\ i < PerInd =>
              e.d.blocks[e.ino.inode.blocks[0]][i] = ino.inode.blocks[i]
         /\ TranslateAt(e.d, e.ino, i) = TranslateAt(d, ino, i)
    /\ TranslateAt(e.d, e.ino, idx).rc = 0
    /\ TranslateAt(e.d, e.ino, idx).blk = e.blk
    /\ d.bitmap[e.blk] = 0
    /\ e.d.bitmap[e.blk] = 1

(* C21: a direct-only file stays direct while indices below N_DIRECT are   *)
(* ensured; the first ensure of an index from N_DIRECT on allocates the    *)
(* indirect block I, sets the indirect bit and blocks[0] = I, leaves the   *)
(* other inode slots INVALID, copies the direct pointers to the first      *)
(* slots of I so that every index below N_DIRECT translates as before,     *)
(* and links a newly allocated data block at the index.                    *)
C21_PromotionKeepsTheMap ==
  \A path \in Paths :
    IsFilePath(disk, path) /\ ~HasIndirect(FindInode(disk, path).ino.inode) =>
      /\ \A idx \in DirectIndexes :
           StaysDirect(EnsureBlock(disk, FindInode(disk, path).ino, idx))
      /\ \A idx \in PromotingIndexes :
           Promoted(disk, FindInode(disk, path).ino, idx,
                    EnsureBlock(disk, FindInode(disk, path).ino, idx))

(***************************************************************************)
(* The order of the disk writes inside one call: the images after each     *)
(* pwrite of edfs_ensure_block, edfs_add_dir_entry and edfuse_write, in    *)
(* the order in which the code issues them.                                *)
(***************************************************************************)
(* indirect case, data block: bitmap_set, then the indirect array *)
DataStages(d, ino, slot, offset) ==
  IF d.blocks[ino.inode.blocks[slot]][offset] # INVALID \/ AllocBlock(d).rc < 0
  THEN <<>>
  ELSE <<AllocBlock(d).d, EnsureNewData(AllocBlock(d), ino, slot, offset).d>>

(* indirect case, new indirect block: bitmap_set, the zeroed block, the    *)
(* inode, then the data block                                              *)
NewIndirectStages(a, ino, slot, offset) ==
  IF a.rc < 0 THEN <<>>
  ELSE <<a.d,
         [a.d EXCEPT !.blocks[a.blk] = ZeroBlock],
         WriteInode([a.d EXCEPT !.blocks[a.blk] = ZeroBlock],
                    WithIndirectBlock(ino, slot, a.blk))>>
       \o DataStages(WriteInode([a.d EXCEPT !.blocks[a.blk] = ZeroBlock],
                                WithIndirectBlock(ino, slot, a.blk)),
                     WithIndirectBlock(ino, slot, a.blk), slot, offset)

IndirectStages(d, ino, idx) ==
  IF idx \div PerInd >= N_DIRECT THEN <<>>
  ELSE IF ino.inode.blocks[idx \div PerInd] = INVALID
  THEN NewIndirectStages(AllocBlock(d), ino, idx \div PerInd, idx % PerInd)
  ELSE DataStages(d, ino, idx \div PerInd, idx % PerInd)

(* conversion to indirect: bitmap_set, the zeroed block, the copied        *)
(* pointers, the inode, then the indirect case                             *)
PromoteStages(a, ino, idx) ==
  IF a.rc < 0 THEN <<>>
  ELSE <<a.d,
         [a.d EXCEPT !.blocks[a.blk] = ZeroBlock],
         [a.d EXCEPT !.blocks[a.blk] = PromotedArray(ino.inode.blocks)],
         WriteInode([a.d EXCEPT !.blocks[a.blk] =
                       PromotedArray(ino.inode.blocks)],
                    PromotedInode(ino, a.blk))>>
       \o IndirectStages(WriteInode([a.d EXCEPT !.blocks[a.blk] =
                                       PromotedArray(ino.inode.blocks)],
                                    PromotedInode(ino, a.blk)),
                         PromotedInode(ino, a.blk), idx)

(* direct range: bitmap_set, then the inode *)
NewDirectStages(a, ino, idx) ==
  IF a.rc < 0 THEN <<>>
  ELSE <<a.d, EnsureNewDirect(a, ino, idx).d>>

(* edfs_ensure_block *)
EnsureStages(d, ino, idx) ==
  IF HasIndirect(ino.inode) THEN IndirectStages(d, ino, idx)
  ELSE IF idx >= N_DIRECT THEN PromoteStages(AllocBlock(d), ino, idx)
  ELSE IF ino.inode.blocks[idx] = INVALID
  THEN NewDirectStages(AllocBlock(d), ino, idx)
  ELSE <<>>

(* edfs_add_dir_entry growing the directory: bitmap_set, the new block     *)
(* with entry 0, then the inode                                            *)
NewBlockStages(a, dir, slot, namecell, inumber) ==
  IF a.rc < 0 THEN <<>>
  ELSE <<a.d,
         [a.d EXCEPT !.blocks[a.blk] =
            SetEntry(ZeroBlock, 0, namecell, inumber)],
         AddInNewBlock(a, dir, slot, namecell, inumber).d>>

(* edfs_add_dir_entry *)
AddStages(d, dir, name, inumber) ==
  IF ~IsDirectory(dir.inode) \/ Len(name) >= FILENAME_SIZE THEN <<>>
  ELSE IF EmptyPositions(d, dir.inode) # {}
  THEN <<AddDirEntry(d, dir, name, inumber).d>>
  ELSE IF InvalidSlots(dir.inode) = {} THEN <<>>
  ELSE NewBlockStages(AllocBlock(d), dir, MinOf(InvalidSlots(dir.inode)),
                      NameCode(name), inumber)

(* The last image of a sequence of writes that began on d. *)
LastImage(d, stages) == IF stages = <<>> THEN d ELSE stages[Len(stages)]

(* edfuse_mkdir, edfuse_create: the new inode, then edfs_add_dir_entry *)
MakeStages(d, path, type) ==
  IF MakeIn(d, GetParentInode(d, path), GetBasename(path), type)
       = Done(-EEXIST, d)
     \/ ~IsNewPath(d, path) \/ NewInode(d, type).rc < 0
  THEN <<>>
  ELSE <<WriteInode(d, NewInode(d, type).ino)>>
       \o AddStages(WriteInode(d, NewInode(d, type).ino),
                    GetParentInode(d, path).ino, GetBasename(path).name,
                    NewInode(d, type).ino.inumber)

(* The blocks a sequence of writes took from the bitmap. *)
NewBits(d, stages) ==
  {b \in BlockNums : d.bitmap[b] = 0 /\ LastImage(d, stages).bitmap[b] = 1}

Targets(d) == {r[4] : r \in Refs(d)}

Sound(d) == \A b \in Targets(d) : b \in BlockNums /\ d.bitmap[b] = 1

(* No image of the sequence holds a pointer to a block the call allocated  *)
(* before the bit of that block is set.                                    *)
BitBeforePointer(d, stages) ==
  \A k \in 1 .. Len(stages) :
    \A b \in NewBits(d, stages) \ Targets(d) :
      b \in Targets(stages[k]) => stages[k].bitmap[b] = 1

(* Every image of the sequence is as sound as the image it began on. *)
StaysSound(d, stages) ==
  Sound(d) => \A k \in 1 .. Len(stages) : Sound(stages[k])

EnsureInOrder(d, ino, idx) ==
  /\ LastImage(d, EnsureStages(d, ino, idx)) = EnsureBlock(d, ino, idx).d
  /\ BitBeforePointer(d, EnsureStages(d, ino, idx))

MakeInOrder(d, path, type) ==
  /\ LastImage(d, MakeStages(d, path, type))
       = MakeIn(d, GetParentInode(d, path), GetBasename(path), type).d
  /\ BitBeforePointer(d, MakeStages(d, path, type))

(* The order alone: the bit of a newly allocated block is written before   *)
(* any pointer to it.                                                      *)
AllocationsInOrder ==
  /\ \A path \in Paths, idx \in LogicalBlocks :
       IsFilePath(disk, path) =>
         EnsureInOrder(disk, FindInode(disk, path).ino, idx)
  /\ \A path \in Paths, type \in {TYPE_FILE, TYPE_DIRECTORY} :
       MakeInOrder(disk, path, type)

(* C22: in every call that allocates a block the write that sets the bit   *)
(* comes before the first write of a pointer to the block, and so no image *)
(* between two writes of such a call holds a pointer to a block whose bit  *)
(* is clear.                                                               *)
C22_BitmapBeforeLink ==
  /\ AllocationsInOrder
  /\ \A path \in Paths, idx \in LogicalBlocks :
       IsFilePath(disk, path) =>
         StaysSound(disk, EnsureStages(disk, FindInode(disk, path).ino, idx))
  /\ \A path \in Paths, type \in {TYPE_FILE, TYPE_DIRECTORY} :
       StaysSound(disk, MakeStages(disk, path, type))

(* the loop of edfuse_write: the writes of edfs_ensure_block, then the     *)
(* pwrite of the chunk, block after block                                  *)
RECURSIVE WriteStagesLoop(_, _, _, _)
ChunkStages(e, buf, offset, written, inblk, chunk) ==
  IF e.rc < 0 THEN <<>>
  ELSE <<PutChunk(e.d, e.blk, buf, written, inblk, chunk)>>
       \o WriteStagesLoop(
            Written(0, PutChunk(e.d, e.blk, buf, written, inblk, chunk), e.ino),
            buf, offset, written + chunk)

WriteStagesLoop(w, buf, offset, written) ==
  IF written >= Len(buf) THEN <<>>
  ELSE EnsureStages(w.d, w.ino, (offset + written) \div BS)
       \o ChunkStages(EnsureBlock(w.d, w.ino, (offset + written) \div BS),
                      buf, offset, written, (offset + written) % BS,
                      Min(BS - ((offset + written) % BS), Len(buf) - written))

(* edfuse_write: the loop, then the inode with the new size *)
WriteStages(d, path, buf, offset) ==
  IF ~IsFilePath(d, path) THEN <<>>
  ELSE WriteStagesLoop(Written(0, d, FindInode(d, path).ino), buf, offset, 0)
       \o <<Write(d, path, buf, offset).d>>

(* The blocks that serve as indirect blocks in image d. *)
IndirectBlocks(d) ==
  {d.itable[i].blocks[s] : i \in {k \in Inumbers : d.itable[k].indirect},
                           s \in Slots}

(* Every block the call allocated to hold data or entries has its final    *)
(* contents in each image in which a pointer to it is on disk.             *)
ContentsBeforePointer(d, stages) ==
  \A b \in (NewBits(d, stages) \ Targets(d))
             \ IndirectBlocks(LastImage(d, stages)) :
    \A k \in 1 .. Len(stages) :
      b \in Targets(stages[k]) =>
        stages[k].blocks[b] = LastImage(d, stages).blocks[b]

WriteInOrder(d, path, buf, offset) ==
  /\ LastImage(d, WriteStages(d, path, buf, offset))
       = Write(d, path, buf, offset).d
  /\ ContentsBeforePointer(d, WriteStages(d, path, buf, offset))

(* C23: in a write that allocates a block, and in add_entry that allocates *)
(* a directory block, the contents of the block are written before the     *)
(* inode or indirect block that first points to it.                        *)
C23_ContentsBeforeInode ==
  /\ \A path \in Paths, offset \in WriteOffsets, n \in WriteLens :
       IsFilePath(disk, path) => WriteInOrder(disk, path, Buffer(n, 0), offset)
  /\ \A path \in Paths, type \in {TYPE_FILE, TYPE_DIRECTORY} :
       ContentsBeforePointer(disk, MakeStages(disk, path, type))

(* The in-memory inode of directory i. *)
DirInode(d, i) == [inumber |-> i, inode |-> d.itable[i]]

(* The empty entries in the allocated blocks of a directory, as pairs of   *)
(* slot and entry in pointer-array order, then entry order.                *)
EmptySlots(d, di) ==
  {<<s, j>> \in Slots \X (0 .. (EntsPerBlock - 1)) :
     di.blocks[s] # INVALID /\ EntryIsEmpty(d.blocks[di.blocks[s]], j)}

FirstPair(S) ==
  CHOOSE p \in S : \A q \in S : p[1] < q[1] \/ (p[1] = q[1] /\ p[2] <= q[2])

(* Entry j of block b of image e is (name, inumber), everything else of    *)
(* the image is as in d.                                                   *)
OnlyEntrySet(d, e, b, j, name, inumber) ==
  /\ e.bitmap = d.bitmap
  /\ e.itable = d.itable
  /\ e.blocks = [d.blocks EXCEPT ![b] = SetEntry(@, j, NameCode(name), inumber)]

FilledFirstEmpty(d, dir, name, inumber, r, p) ==
  /\ r.rc = 0
  /\ OnlyEntrySet(d, r.d, dir.inode.blocks[p[1]], p[2], name, inumber)

(* Block b was taken from the bitmap, holds nothing but the entry in slot  *)
(* 0 and hangs in inode slot s of the directory.                           *)
GrewByOneBlock(d, dir, name, inumber, r, b, s) ==
  /\ r.rc = 0
  /\ r.d.bitmap = [d.bitmap EXCEPT ![b] = 1]
  /\ r.d.blocks =
       [d.blocks EXCEPT ![b] = SetEntry(ZeroBlock, 0, NameCode(name), inumber)]
  /\ r.d.itable =
       [d.itable EXCEPT ![dir.inumber].blocks[s] = b]

AddsAsClaimed(d, dir, name, inumber, r) ==
  IF EmptySlots(d, dir.inode) # {}
  THEN FilledFirstEmpty(d, dir, name, inumber, r,
                        FirstPair(EmptySlots(d, dir.inode)))
  ELSE IF InvalidSlots(dir.inode) # {}
  THEN IF ClearBits(d) # {}
       THEN GrewByOneBlock(d, dir, name, inumber, r, MinOf(ClearBits(d)),
                           MinOf(InvalidSlots(dir.inode)))
       ELSE r = [rc |-> -ENOSPC, d |-> d]
  ELSE r = [rc |-> -ENOSPC, d |-> d]

AllocatesLowest(d, a) ==
  IF ClearBits(d) = {}
  THEN a.rc = -ENOSPC /\ a.d = d
  ELSE /\ a.rc = 0
       /\ a.blk # INVALID
       /\ d.bitmap[a.blk] = 0
       /\ \A b \in BlockNums : b < a.blk => d.bitmap[b] = 1
       /\ a.d = [d EXCEPT !.bitmap[a.blk] = 1]

(* n allocations in a row, each as claimed: from any image this fills the  *)
(* bitmap, so that the last ones find no clear bit.                        *)
RECURSIVE AllocatesInARow(_, _)
AllocatesInARow(d, n) ==
  \/ n = 0
  \/ /\ AllocatesLowest(d, AllocBlock(d))
     /\ AllocatesInARow(AllocBlock(d).d, n - 1)

RECURSIVE AllocTimes(_, _)
AllocTimes(d, n) == IF n = 0 THEN d ELSE AllocTimes(AllocBlock(d).d, n - 1)

FreesOnlyThatBit(d, b) ==
  IF d.bitmap[b] = 1
  THEN /\ BitmapSet(d, b, FALSE) = [rc |-> 0, d |-> [d EXCEPT !.bitmap[b] = 0]]
       /\ FreeBlock(d, b) = [d EXCEPT !.bitmap[b] = 0]
  ELSE /\ BitmapSet(d, b, FALSE) = [rc |-> -ENOENT, d |-> d]
       /\ FreeBlock(d, b) = d

AllocThenFreeRestores(d, a) ==
  a.rc = 0 =>
    /\ BitmapSet(a.d, a.blk, FALSE) = [rc |-> 0, d |-> d]
    /\ FreeBlock(a.d, a.blk) = d

(* C26: free_block of a block whose bit is set clears that bit and no      *)
(* other; of a block whose bit is clear it fails with ENOENT and changes   *)
(* nothing; alloc_block followed by free_block of the block it returned    *)
(* restores the bitmap.                                                    *)
C26_FreeClearsOneBit ==
  /\ \A b \in BlockNums : FreesOnlyThatBit(disk, b)
  /\ AllocThenFreeRestores(disk, AllocBlock(disk))

(* Some bit is set and some is clear, and an allocation succeeds. *)
C26_Witness ==
  /\ \E b \in BlockNums : disk.bitmap[b] = 1
  /\ \E b \in BlockNums : disk.bitmap[b] = 0
  /\ AllocBlock(disk).rc = 0
  /\ BitmapSet(AllocBlock(disk).d, AllocBlock(disk).blk, FALSE).rc = 0
  /\ \E b \in BlockNums : BitmapSet(disk, b, FALSE).rc = -ENOENT

(* The inumbers from 1 on whose on-disk type is free. *)
FreeSlotsFromOne(d) ==
  {i \in Inumbers : i >= 1 /\ d.itable[i].type = TYPE_FREE /\ ~d.itable[i].indirect}

(* new_inode(type) on image d gave n. *)
NewInodeAsClaimed(d, type, n) ==
  IF FreeSlotsFromOne(d) = {}
  THEN n.rc = -ENOSPC
  ELSE /\ n.rc = 0
       /\ n.ino.inumber \in FreeSlotsFromOne(d)
       /\ \A i \in FreeSlotsFromOne(d) : n.ino.inumber <= i
       /\ n.ino.inode.size = 0
       /\ n.ino.inode.type = type
       /\ \A s \in Slots : n.ino.inode.blocks[s] = INVALID

(* C27: new_inode picks the lowest inumber from 1 on whose on-disk type is *)
(* free and returns an in-memory inode of the requested type with size 0   *)
(* and every pointer INVALID; without a free slot it returns ENOSPC.       *)
C27_NewInodeIsEmpty ==
  \A type \in {TYPE_FILE, TYPE_DIRECTORY} :
    NewInodeAsClaimed(disk, type, NewInode(disk, type))

(* The entries of the blocks a directory inode points to, as block and     *)
(* entry index.                                                            *)
EntriesOf(p) ==
  {<<b, j>> : b \in DirectPointers(p), j \in 0 .. (EntsPerBlock - 1)}

EntryChanged(d, e, x) ==
  \/ EntryName(d.blocks[x[1]], x[2]) # EntryName(e.blocks[x[1]], x[2])
  \/ EntryInumber(d.blocks[x[1]], x[2]) # EntryInumber(e.blocks[x[1]], x[2])

ChangedEntries(d, e, p) == {x \in EntriesOf(p) : EntryChanged(d, e, x)}

(* Image e differs from d, for the parent p of target t, in exactly one    *)
(* entry: one that named t and is now all zero.                            *)
ZeroedOneEntry(d, e, p, t) ==
  /\ Cardinality(ChangedEntries(d, e, p)) = 1
  /\ \A x \in ChangedEntries(d, e, p) :
       /\ EntryInumber(d.blocks[x[1]], x[2]) = t.inumber
       /\ EntryName(e.blocks[x[1]], x[2]) = 0
       /\ EntryInumber(e.blocks[x[1]], x[2]) = 0

(* The parent inode is as it was, and each block it points to keeps the    *)
(* bitmap bit it had.                                                      *)
ParentKept(d, e, p) ==
  /\ e.itable[p.inumber] = d.itable[p.inumber]
  /\ \A b \in DirectPointers(p) : e.bitmap[b] = d.bitmap[b]

RemovedAsClaimed(d, r, p, t) ==
  r.rc = 0 => ZeroedOneEntry(d, r.d, p.ino, t.ino) /\ ParentKept(d, r.d, p.ino)

(* C28: a successful unlink or rmdir zeroes exactly one entry of the       *)
(* parent, one naming the target, and leaves the parent inode, its         *)
(* pointers and the bitmap bits of its blocks as they were.                *)
C28_RemoveZeroesOneEntry ==
  \A path \in Paths :
    /\ RemovedAsClaimed(disk, Unlink(disk, path),
                        GetParentInode(disk, path), FindInode(disk, path))
    /\ RemovedAsClaimed(disk, Rmdir(disk, path),
                        GetParentInode(disk, path), FindInode(disk, path))

(* The non-empty entries, as block and entry index, of the blocks of the   *)
(* allocated directories of image d that name inode i. A block that two    *)
(* directories point to counts once.                                       *)
EntriesNaming(d, i) ==
  {x \in BlockNums \X (0 .. (EntsPerBlock - 1)) :
     /\ \E p \in Allocated(d) \cap Directories(d) :
          \E s \in Slots : d.itable[p].blocks[s] = x[1]
     /\ ~EntryIsEmpty(d.blocks[x[1]], x[2])
     /\ EntryInumber(d.blocks[x[1]], x[2]) = i}

Orphans(d) == {i \in Allocated(d) \ {ROOT} : EntriesNaming(d, i) = {}}

NamedOnce(d) ==
  \A i \in Allocated(d) \ {ROOT} : Cardinality(EntriesNaming(d, i)) = 1

(* A path whose basename does not fit a directory entry. *)
OverlongPath == <<"/", "a", "a">>

(* C29: in every reachable image, and in the image any further mkdir or    *)
(* create leaves, failing ones included, each allocated inode other than   *)
(* the root is named by exactly one directory entry.                       *)
C29_NoOrphanInodes ==
  /\ NamedOnce(disk)
  /\ \A path \in Paths \cup {OverlongPath} :
       NamedOnce(Mkdir(disk, path).d) /\ NamedOnce(Create(disk, path).d)

RootPath == <<"/">>

(* rmdir("/") fails and writes nothing: ENOTEMPTY while the root has an    *)
(* entry, EINVAL from the parent lookup once it has none.                  *)
RmdirRootFails(d, r) ==
  /\ r.d = d
  /\ r.rc = (IF HasChild(d, d.itable[ROOT]) THEN -ENOTEMPTY ELSE -EINVAL)

(* The inumber a create or mkdir would take is not the root's. *)
NewInodeSparesRoot(n) == n.rc = 0 => n.ino.inumber # ROOT

(* C30: in every reachable image the inode at the root inumber is an       *)
(* allocated directory inode, rmdir("/") fails without a write, and        *)
(* find_free_inode does not return the root inumber.                       *)
C30_RootInodeStays ==
  /\ ROOT \in Allocated(disk)
  /\ IsDirectory(disk.itable[ROOT])
  /\ RmdirRootFails(disk, Rmdir(disk, RootPath))
  /\ FindFreeInode(disk) # ROOT
  /\ \A type \in {TYPE_FILE, TYPE_DIRECTORY} :
       NewInodeSparesRoot(NewInode(disk, type))

(* The root was given a block by a create or mkdir, is empty again, and    *)
(* rmdir("/") was refused by the parent lookup.                            *)
C30_Witness ==
  /\ disk.itable[ROOT].blocks # EmptyImage.itable[ROOT].blocks
  /\ ~HasChild(disk, disk.itable[ROOT])
  /\ Rmdir(disk, RootPath).rc = -EINVAL
  /\ FindFreeInode(disk) > ROOT

=============================================================================
